---- MODULE Spec2Model ----
(***************************************************************************)
(* Model of the VkApi Vulkan layer (core/vulkan/vk_api/cc/layer.cpp).      *)
(*                                                                         *)
(* The layer sits between the caller and the next segment of the chain.    *)
(* The state is the process-wide Context (the instance forwarding table    *)
(* and the device map), the tracing data sources, and the static call      *)
(* counter of vkDebugMarkerSetObjectNameEXT.  The next segment and the     *)
(* trace consumer are the environment: their answers are inputs drawn      *)
(* with \E in each action.                                                 *)
(***************************************************************************)
EXTENDS Integers, Sequences, FiniteSets, TLC

VARIABLES
    instances,    \* Context::GetInstance(): the InstanceData forwarding table
    device_map,   \* Context::GetDeviceMap(): VkDevice -> DeviceData
    registered,   \* data source names registered with the tracing backend
    dsState,      \* per registered name: "none" | "setup" | "started"
    dsSlot,       \* per name: instance slot in the shared static state
    first,        \* per data source instance: GpuRenderStageDataSource::first
    cnt,          \* static int cnt of vkDebugMarkerSetObjectNameEXT
    streamLog,    \* per name: the trace packets its session has received
    alive,        \* FALSE once the process has crashed
    ctxCreated,   \* history: some vkCreateInstance has returned VK_SUCCESS
    trHist,       \* history: the last two tracing events
    sessionStart, \* history: per name, the length of its log at its last setup
    emitted,      \* history: the stage packets in the order they were emitted
    prevEnum,     \* history: the previous enumeration call
    last          \* the last call: its arguments, result and next-segment calls

vars == <<instances, device_map, registered, dsState, dsSlot, first, cnt,
          streamLog, alive, ctxCreated, trHist, sessionStart, emitted,
          prevEnum, last>>

chainVars == <<instances, device_map>>
traceVars == <<dsState, dsSlot, first, cnt, streamLog, trHist, sessionStart,
               emitted>>

-----------------------------------------------------------------------------
(* Bounds *)

MaxDevices == 2     \* device identities the next segment can hand out
MaxCnt == 5         \* cap on the static call counter cnt
MaxCap == 3         \* largest caller buffer capacity in an enumeration
MaxExt == 2         \* most extensions the next segment reports
MaxChain == 3       \* most nodes of a pNext chain given to get_layer_link_info

Devices == 1..MaxDevices

-----------------------------------------------------------------------------
(* Values *)

VK_SUCCESS == "VK_SUCCESS"
VK_INCOMPLETE == "VK_INCOMPLETE"
VK_ERROR_INITIALIZATION_FAILED == "VK_ERROR_INITIALIZATION_FAILED"
VK_ERROR_OUT_OF_HOST_MEMORY == "VK_ERROR_OUT_OF_HOST_MEMORY"
NoResult == "none"

\* Results the next segment's creation routines and handlers can report.
NextResults ==
    {VK_SUCCESS, VK_ERROR_OUT_OF_HOST_MEMORY, VK_ERROR_INITIALIZATION_FAILED}

\* A function pointer is named by the segment that owns it and the entry
\* point it implements.  NULL is the null pointer.
Fn(seg, name) == [seg |-> seg, fn |-> name]
NULL == Fn("null", "null")
Garbage == Fn("garbage", "garbage")

LAYER_NAME == "VkApi"

\* The address of this layer's own implementation of an entry point.
Local(name) == Fn(LAYER_NAME, name)

NullHandle == 0
InstanceHandles == {1}

VK_STRUCTURE_TYPE_LOADER_INSTANCE_CREATE_INFO == "LOADER_INSTANCE_CREATE_INFO"
VK_STRUCTURE_TYPE_LOADER_DEVICE_CREATE_INFO == "LOADER_DEVICE_CREATE_INFO"
VK_LAYER_LINK_INFO == "VK_LAYER_LINK_INFO"
VK_STRUCTURE_TYPE_DEBUG_REPORT_CALLBACK_CREATE_INFO_EXT ==
    "VK_STRUCTURE_TYPE_DEBUG_REPORT_CALLBACK_CREATE_INFO_EXT"
VK_LOADER_DATA_CALLBACK == "VK_LOADER_DATA_CALLBACK"

-----------------------------------------------------------------------------
(* Entry point names *)

\* The INTERCEPT list with the vkCreateDevice line left out.
InstanceInterceptsNoCreateDevice ==
    {"vkGetInstanceProcAddr", "vkCreateInstance",
     "vkDebugMarkerSetObjectNameEXT", "vkSetDebugUtilsObjectNameEXT",
     "vkDebugMarkerSetObjectTagEXT", "vkEnumerateDeviceLayerProperties",
     "vkEnumerateDeviceExtensionProperties",
     "vkEnumerateInstanceLayerProperties"}

\* The names vkGetInstanceProcAddr intercepts (INTERCEPT list).
InstanceIntercepts ==
    {"vkGetInstanceProcAddr", "vkCreateInstance", "vkCreateDevice",
     "vkDebugMarkerSetObjectNameEXT", "vkSetDebugUtilsObjectNameEXT",
     "vkDebugMarkerSetObjectTagEXT", "vkEnumerateDeviceLayerProperties",
     "vkEnumerateDeviceExtensionProperties",
     "vkEnumerateInstanceLayerProperties"}

\* The names vkGetDeviceProcAddr intercepts (INTERCEPT list).
DeviceIntercepts ==
    {"vkGetDeviceProcAddr", "vkDebugMarkerSetObjectNameEXT",
     "vkDebugMarkerSetObjectTagEXT", "vkCmdDebugMarkerBeginEXT",
     "vkCmdDebugMarkerEndEXT", "vkCmdDebugMarkerInsertEXT"}

\* The fields of InstanceData that vkCreateInstance fills with GET_PROC.
InstanceProcs ==
    {"vkGetInstanceProcAddr", "vkSetDebugUtilsObjectNameEXT",
     "vkEnumerateDeviceExtensionProperties", "vkDebugMarkerSetObjectNameEXT",
     "vkDebugMarkerSetObjectTagEXT", "vkCmdDebugMarkerBeginEXT",
     "vkCmdDebugMarkerEndEXT", "vkCmdDebugMarkerInsertEXT"}

\* The fields of DeviceData that vkCreateDevice fills with GET_PROC.
DeviceProcs ==
    {"vkGetDeviceProcAddr", "vkDebugMarkerSetObjectNameEXT",
     "vkDebugMarkerSetObjectTagEXT"}

\* Names a caller resolves that the layer does not intercept at either scope.
OtherNames == {"vkDestroyInstance", "vkQueueSubmit", "vkNoSuchFunction"}

\* Every funcName a caller passes to a resolver.
Names ==
    {"vkGetInstanceProcAddr", "vkCreateInstance", "vkCreateDevice",
     "vkDebugMarkerSetObjectNameEXT", "vkSetDebugUtilsObjectNameEXT",
     "vkDebugMarkerSetObjectTagEXT", "vkEnumerateDeviceLayerProperties",
     "vkEnumerateDeviceExtensionProperties",
     "vkEnumerateInstanceLayerProperties", "vkGetDeviceProcAddr",
     "vkCmdDebugMarkerBeginEXT", "vkCmdDebugMarkerEndEXT",
     "vkCmdDebugMarkerInsertEXT"} \cup OtherNames

\* Names a resolver answers when called with a null instance.
NullInstanceNames ==
    {"vkGetInstanceProcAddr", "vkCreateInstance", "vkCreateDevice",
     "vkEnumerateInstanceLayerProperties"}

DebugNames ==
    {"vkDebugMarkerSetObjectNameEXT", "vkSetDebugUtilsObjectNameEXT",
     "vkDebugMarkerSetObjectTagEXT", "vkCmdDebugMarkerBeginEXT",
     "vkCmdDebugMarkerEndEXT", "vkCmdDebugMarkerInsertEXT"}

-----------------------------------------------------------------------------
(* The next segment (environment) *)

\* The kinds of next segment a link node can point at:
\*   full      answers every real entry point
\*   plain     a driver without the debug marker / debug utils entry points
\*   noGipa    answers everything but the resolver names themselves
\*   noEnum    does not answer vkEnumerateDeviceExtensionProperties
\*   noCreate  does not answer the creation routines
Segments == {"full", "plain", "noGipa", "noEnum", "noCreate"}

SegKnown(s) ==
    CASE s = "full"     -> Names \ {"vkNoSuchFunction"}
      [] s = "plain"    -> Names \ (DebugNames \cup {"vkNoSuchFunction"})
      [] s = "noGipa"   -> Names \ {"vkGetInstanceProcAddr",
                                    "vkGetDeviceProcAddr", "vkNoSuchFunction"}
      [] s = "noEnum"   -> Names \ {"vkEnumerateDeviceExtensionProperties",
                                    "vkNoSuchFunction"}
      [] s = "noCreate" -> Names \ {"vkCreateInstance", "vkCreateDevice",
                                    "vkNoSuchFunction"}

\* What segment s's instance resolver returns for (instance, name).
NextGetInstanceProcAddr(s, instance, name) ==
    IF name \in SegKnown(s)
         /\ (instance # NullHandle \/ name \in NullInstanceNames)
    THEN Fn(s, name)
    ELSE NULL

\* What segment s's device resolver returns for (device, name).
NextGetDeviceProcAddr(s, device, name) ==
    IF name \in SegKnown(s) THEN Fn(s, name) ELSE NULL

\* Calling through a resolver pointer obtained from the next segment.
CallInstanceResolver(p, instance, name) ==
    NextGetInstanceProcAddr(p.seg, instance, name)

CallDeviceResolver(p, device, name) ==
    NextGetDeviceProcAddr(p.seg, device, name)

\* One call made into the next segment.
NextCall(p, handle, name) == [callee |-> p, handle |-> handle, name |-> name]

-----------------------------------------------------------------------------
(* Creation parameter chains *)

\* A VkLayerInstanceLink / VkLayerDeviceLink of segment s.
Link(s) ==
    [pfnNextGetInstanceProcAddr |-> Fn(s, "vkGetInstanceProcAddr"),
     pfnNextGetDeviceProcAddr |-> Fn(s, "vkGetDeviceProcAddr")]

\* A node of the pNext chain; pLayerInfo is the list of links still to be
\* consumed, this layer's link first.
Node(sType, function, pLayerInfo) ==
    [sType |-> sType, function |-> function, pLayerInfo |-> pLayerInfo]

link_info_traits_sType(is_instance) ==
    IF is_instance THEN VK_STRUCTURE_TYPE_LOADER_INSTANCE_CREATE_INFO
    ELSE VK_STRUCTURE_TYPE_LOADER_DEVICE_CREATE_INFO

\* The next segments a link node of the scope can point at.
LinkSegments(is_instance) ==
    IF is_instance THEN Segments ELSE {"full", "noGipa", "noCreate"}

\* The pNext chains the loader hands to this layer: exactly one link-info
\* node of the scope, either alone with a further link behind this layer's,
\* or after a loader callback node of the same tag.
CreateInfos(is_instance) ==
    LET tag == link_info_traits_sType(is_instance) IN
    { <<Node(tag, VK_LAYER_LINK_INFO, <<Link(s), Link("full")>>)>> :
          s \in LinkSegments(is_instance) }
    \cup { <<Node(tag, VK_LOADER_DATA_CALLBACK, <<>>),
             Node(tag, VK_LAYER_LINK_INFO, <<Link("full")>>)>> }

\* A search that looks at the tag only.
RECURSIVE get_layer_link_info_by_sType(_, _, _)
get_layer_link_info_by_sType(chain, i, is_instance) ==
    IF i > Len(chain) THEN 0
    ELSE IF chain[i].sType = link_info_traits_sType(is_instance)
         THEN i
         ELSE get_layer_link_info_by_sType(chain, i + 1, is_instance)

\* Index of the first node from position i on whose tag is the scope's
\* loader tag and whose function is link info; 0 when the list is exhausted.
RECURSIVE get_layer_link_info_from(_, _, _)
get_layer_link_info_from(chain, i, is_instance) ==
    IF i > Len(chain) THEN 0
    ELSE IF chain[i].sType = link_info_traits_sType(is_instance)
              /\ chain[i].function = VK_LAYER_LINK_INFO
         THEN i
         ELSE get_layer_link_info_from(chain, i + 1, is_instance)

get_layer_link_info(chain, is_instance) ==
    get_layer_link_info_from(chain, 1, is_instance)

-----------------------------------------------------------------------------
(* The record of the last call *)

Ret(op, fname, handle, seg, res, ptr, calls, linkSeen, ub) ==
    [op |-> op, fname |-> fname, handle |-> handle, seg |-> seg,
     res |-> res, ptr |-> ptr, nextCalls |-> calls, linkSeen |-> linkSeen,
     ub |-> ub, nextRes |-> NoResult, linkBefore |-> <<>>,
     linkAfter |-> <<>>, is_instance |-> FALSE, pNext |-> <<>>,
     pNextAfter |-> <<>>, found |-> 0,
     layer |-> "", cap |-> 0, avail |-> 0, nullBuf |-> FALSE,
     count |-> 0, writes |-> <<>>]

NoCall == Ret("init", "", NullHandle, "", NoResult, NULL, <<>>, <<>>, FALSE)

\* The InstanceData of a Context nobody has written yet (static storage).
EmptyInstanceData == [n \in InstanceProcs |-> NULL]

NoEnum == [layer |-> "", nullBuf |-> FALSE, avail |-> 0, count |-> 0,
           res |-> NoResult]

DataSourceNames == {"gpu.renderstages", "vk_api"}

Init ==
    /\ instances = EmptyInstanceData
    /\ device_map = << >>
    /\ registered = {}
    /\ dsState = [n \in DataSourceNames |-> "none"]
    /\ dsSlot = [n \in DataSourceNames |-> 0]
    /\ first = [n \in DataSourceNames |-> TRUE]
    /\ cnt = 1
    /\ streamLog = [n \in DataSourceNames |-> << >>]
    /\ alive = TRUE
    /\ ctxCreated = FALSE
    /\ trHist = << >>
    /\ sessionStart = [n \in DataSourceNames |-> 0]
    /\ emitted = << >>
    /\ prevEnum = NoEnum
    /\ last = NoCall

-----------------------------------------------------------------------------
(* get_layer_link_info on its own, over every pNext chain of up to         *)
(* MaxChain nodes.                                                         *)

\* The nodes a pNext chain can hold: the two loader tags and a tag of
\* another structure, each with either value of the function field.
ChainNodes ==
    { Node(t, f, <<Link("full")>>) :
        t \in {VK_STRUCTURE_TYPE_LOADER_INSTANCE_CREATE_INFO,
                VK_STRUCTURE_TYPE_LOADER_DEVICE_CREATE_INFO,
                VK_STRUCTURE_TYPE_DEBUG_REPORT_CALLBACK_CREATE_INFO_EXT},
        f \in {VK_LAYER_LINK_INFO, VK_LOADER_DATA_CALLBACK} }

Chains == UNION { [1..n -> ChainNodes] : n \in 0..MaxChain }

\* A caller about to hand the chain pNext to get_layer_link_info.
LinkInput(is_instance, chain) ==
    [Ret("pCreateInfo", "", NullHandle, "", NoResult, NULL, <<>>, <<>>, FALSE)
       EXCEPT !.is_instance = is_instance, !.pNext = chain]

InitLink ==
    /\ instances = EmptyInstanceData
    /\ device_map = << >>
    /\ registered = {}
    /\ dsState = [n \in DataSourceNames |-> "none"]
    /\ dsSlot = [n \in DataSourceNames |-> 0]
    /\ first = [n \in DataSourceNames |-> TRUE]
    /\ cnt = 1
    /\ streamLog = [n \in DataSourceNames |-> << >>]
    /\ alive = TRUE
    /\ ctxCreated = FALSE
    /\ trHist = << >>
    /\ sessionStart = [n \in DataSourceNames |-> 0]
    /\ emitted = << >>
    /\ prevEnum = NoEnum
    /\ \E is_instance \in BOOLEAN, chain \in Chains :
          last = LinkInput(is_instance, chain)

\* The call records the chain before and after: the function reads the
\* nodes and writes none.
GetLayerLinkInfo ==
    /\ alive
    /\ last.op = "pCreateInfo"
    /\ last' = [last EXCEPT !.op = "get_layer_link_info",
                            !.pNextAfter = last.pNext,
                            !.found = get_layer_link_info(last.pNext,
                                                          last.is_instance)]
    /\ UNCHANGED <<chainVars, registered, traceVars, alive, ctxCreated,
                   prevEnum>>

SpecLink == InitLink /\ [][GetLayerLinkInfo]_vars

-----------------------------------------------------------------------------
(* Undefined behaviour: a call through a null function pointer either      *)
(* crashes the process or returns garbage.                                 *)

NullCall(op, fname, handle) ==
    \E crash \in BOOLEAN :
        /\ alive' = ~crash
        /\ last' = Ret(op, fname, handle, "", NoResult, Garbage, <<>>, <<>>,
                       TRUE)

-----------------------------------------------------------------------------
(* vkCreateInstance *)

\* A null test that never fires.
IsNullNever(p) == FALSE

\* if (create_instance == NULL), if (!create_device)
IsNull(p) == p = NULL

\* A link list left as it was.
AdvanceSkipped(pLayerInfo) == pLayerInfo

\* layer_info->u.pLayerInfo = layer_info->u.pLayerInfo->pNext
Advance(pLayerInfo) == Tail(pLayerInfo)

\* A failure test that knows one error code only.
CreateFailedOnlyOutOfMemory(result) == result = VK_ERROR_OUT_OF_HOST_MEMORY

\* if (result != VK_SUCCESS) return result;  (both creation routines)
CreateFailed(result) == result # VK_SUCCESS

\* perfetto::Tracing::Initialize and the two Register calls at the top of
\* vkCreateInstance.
RegisterDataSources == registered \cup {"gpu.renderstages", "vk_api"}

\* A GET_PROC block that fills only the fields that are still NULL.
InstanceGetProcsIfUnset(gipa, instance) ==
    [n \in InstanceProcs |->
        IF instances[n] # NULL THEN instances[n]
        ELSE CallInstanceResolver(gipa, instance, n)]

\* The GET_PROC block of vkCreateInstance: every field is whatever the next
\* segment's resolver returns for the new instance.
InstanceGetProcs(gipa, instance) ==
    [n \in InstanceProcs |-> CallInstanceResolver(gipa, instance, n)]

\* nres and h are the result and the instance handle the next segment's
\* vkCreateInstance produces when it is called.
vkCreateInstance(pCreateInfo, nres, h) ==
    LET layer_info == pCreateInfo[get_layer_link_info(pCreateInfo, TRUE)]
        get_instance_proc_addr ==
            Head(layer_info.pLayerInfo).pfnNextGetInstanceProcAddr
        seg == get_instance_proc_addr.seg
        create_instance ==
            CallInstanceResolver(get_instance_proc_addr, NullHandle,
                                 "vkCreateInstance")
        enumerate_device_extension_properties ==
            CallInstanceResolver(get_instance_proc_addr, h,
                                 "vkEnumerateDeviceExtensionProperties")
        advanced == Advance(layer_info.pLayerInfo)
        call == <<NextCall(create_instance, NullHandle, "vkCreateInstance")>>
        Done(res, calls, seen) ==
            [Ret("vkCreateInstance", "", h, seg, res, NULL, calls, seen,
                 FALSE)
               EXCEPT !.linkBefore = layer_info.pLayerInfo,
                      !.linkAfter = IF calls = <<>> THEN layer_info.pLayerInfo
                                    ELSE advanced]
    IN
    /\ alive
    /\ registered' = RegisterDataSources
    /\ IF IsNull(create_instance)
       THEN /\ last' = Done(VK_ERROR_INITIALIZATION_FAILED, <<>>, <<>>)
            /\ UNCHANGED <<instances, ctxCreated>>
       ELSE IF CreateFailed(nres)
       THEN /\ last' = [Done(nres, call, advanced) EXCEPT !.nextRes = nres]
            /\ UNCHANGED <<instances, ctxCreated>>
       ELSE IF enumerate_device_extension_properties = NULL
       THEN /\ last' = [Done(VK_ERROR_INITIALIZATION_FAILED, call, advanced)
                          EXCEPT !.nextRes = nres]
            /\ UNCHANGED <<instances, ctxCreated>>
       ELSE /\ instances' = InstanceGetProcs(get_instance_proc_addr, h)
            /\ ctxCreated' = TRUE
            /\ last' = [Done(nres, call, advanced) EXCEPT !.nextRes = nres]
    /\ UNCHANGED <<device_map, traceVars, alive, prevEnum>>

CreateInstance ==
    \E ci \in CreateInfos(TRUE), nres \in NextResults, h \in InstanceHandles :
        vkCreateInstance(ci, nres, h)

-----------------------------------------------------------------------------
(* vkGetInstanceProcAddr *)

vkGetInstanceProcAddr(instance, funcName) ==
    /\ alive
    /\ IF funcName \in InstanceIntercepts
       THEN /\ last' = Ret("vkGetInstanceProcAddr", funcName, instance, "",
                           NoResult, Local(funcName), <<>>, <<>>, FALSE)
            /\ UNCHANGED alive
       ELSE LET instance_proc_addr == instances["vkGetInstanceProcAddr"] IN
            IF instance_proc_addr = NULL
            THEN NullCall("vkGetInstanceProcAddr", funcName, instance)
            ELSE /\ last' = Ret("vkGetInstanceProcAddr", funcName, instance,
                                instance_proc_addr.seg, NoResult,
                                CallInstanceResolver(instance_proc_addr,
                                                     instance, funcName),
                                <<NextCall(instance_proc_addr, instance,
                                           funcName)>>,
                                <<>>, FALSE)
                 /\ UNCHANGED alive
    /\ UNCHANGED <<chainVars, registered, traceVars, ctxCreated, prevEnum>>

GetInstanceProcAddr ==
    \E instance \in InstanceHandles \cup {NullHandle}, funcName \in Names :
        vkGetInstanceProcAddr(instance, funcName)

-----------------------------------------------------------------------------
(* vkCreateDevice *)

PhysicalDevices == {"gpu0"}

\* DeviceData data{gpu} followed by the GET_PROC block of vkCreateDevice.
DeviceGetProcs(gpu, gdpa, device) ==
    [gpu |-> gpu,
     procs |-> [n \in DeviceProcs |-> CallDeviceResolver(gdpa, device, n)]]

\* A lookup that never finds the key.
DeviceMapHasNever(device) == FALSE

\* device_map->find(*pDevice) != device_map->end()
DeviceMapHas(device) == device \in DOMAIN device_map

\* A store that leaves the new entry alone in the map.
DeviceMapAssign(device, data) == [d \in {device} |-> data]

\* (*device_map)[*pDevice] = data
DeviceMapInsert(device, data) ==
    [d \in DOMAIN device_map \cup {device} |->
        IF d = device THEN data ELSE device_map[d]]

\* nres and d are the result and the device identity the next segment's
\* vkCreateDevice produces when it is called.
vkCreateDevice(gpu, pCreateInfo, nres, d) ==
    LET layer_info == pCreateInfo[get_layer_link_info(pCreateInfo, FALSE)]
        get_instance_proc_addr ==
            Head(layer_info.pLayerInfo).pfnNextGetInstanceProcAddr
        seg == get_instance_proc_addr.seg
        create_device ==
            CallInstanceResolver(get_instance_proc_addr, NullHandle,
                                 "vkCreateDevice")
        get_device_proc_addr ==
            Head(layer_info.pLayerInfo).pfnNextGetDeviceProcAddr
        advanced == Advance(layer_info.pLayerInfo)
        call == <<NextCall(create_device, NullHandle, "vkCreateDevice")>>
        Done(res, calls, seen) ==
            [Ret("vkCreateDevice", "", d, seg, res, NULL, calls, seen, FALSE)
               EXCEPT !.linkBefore = layer_info.pLayerInfo,
                      !.linkAfter = IF calls = <<>> THEN layer_info.pLayerInfo
                                    ELSE advanced]
    IN
    /\ alive
    /\ ctxCreated
    /\ IF IsNull(create_device)
       THEN /\ last' = Done(VK_ERROR_INITIALIZATION_FAILED, <<>>, <<>>)
            /\ UNCHANGED device_map
       ELSE IF CreateFailed(nres)
       THEN /\ last' = [Done(nres, call, advanced) EXCEPT !.nextRes = nres]
            /\ UNCHANGED device_map
       ELSE IF DeviceMapHas(d)
       THEN /\ last' = [Done(VK_ERROR_INITIALIZATION_FAILED, call, advanced)
                          EXCEPT !.nextRes = nres]
            /\ UNCHANGED device_map
       ELSE /\ device_map' =
                  DeviceMapInsert(d, DeviceGetProcs(gpu, get_device_proc_addr,
                                                    d))
            /\ last' = [Done(nres, call, advanced) EXCEPT !.nextRes = nres]
    /\ UNCHANGED <<instances, registered, traceVars, alive, ctxCreated,
                   prevEnum>>

CreateDevice ==
    \E gpu \in PhysicalDevices, ci \in CreateInfos(FALSE),
       nres \in NextResults, d \in Devices :
        vkCreateDevice(gpu, ci, nres, d)

-----------------------------------------------------------------------------
(* vkGetDeviceProcAddr *)

\* Called for devices the caller holds, that is, registered ones.
vkGetDeviceProcAddr(dev, funcName) ==
    /\ alive
    /\ dev \in DOMAIN device_map
    /\ IF funcName \in DeviceIntercepts
       THEN /\ last' = Ret("vkGetDeviceProcAddr", funcName, dev, "",
                           NoResult, Local(funcName), <<>>, <<>>, FALSE)
            /\ UNCHANGED alive
       ELSE LET device_proc_addr ==
                    device_map[dev].procs["vkGetDeviceProcAddr"] IN
            IF device_proc_addr = NULL
            THEN NullCall("vkGetDeviceProcAddr", funcName, dev)
            ELSE /\ last' = Ret("vkGetDeviceProcAddr", funcName, dev,
                                device_proc_addr.seg, NoResult,
                                CallDeviceResolver(device_proc_addr, dev,
                                                   funcName),
                                <<NextCall(device_proc_addr, dev, funcName)>>,
                                <<>>, FALSE)
                 /\ UNCHANGED alive
    /\ UNCHANGED <<chainVars, registered, traceVars, ctxCreated, prevEnum>>

GetDeviceProcAddr ==
    \E dev \in Devices, funcName \in Names : vkGetDeviceProcAddr(dev, funcName)

-----------------------------------------------------------------------------
(* Pass-through handlers: vkDebugMarkerSetObjectTagEXT and                 *)
(* vkSetDebugUtilsObjectNameEXT                                            *)

PassThroughNames ==
    {"vkDebugMarkerSetObjectTagEXT", "vkSetDebugUtilsObjectNameEXT"}

\* The pointer a pass-through handler calls: the field of that name in the
\* instance table returned by GetGlobalContext().GetInstance().
PassThroughTarget(name, device) == instances[name]

\* nres is the result the next segment's implementation returns.
PassThrough(name, device, nres) ==
    LET target == PassThroughTarget(name, device) IN
    /\ alive
    /\ device \in DOMAIN device_map
    /\ IF target = NULL
       THEN NullCall(name, "", device)
       ELSE /\ last' = [Ret(name, "", device, target.seg, nres, NULL,
                            <<NextCall(target, device, name)>>, <<>>, FALSE)
                          EXCEPT !.nextRes = nres]
            /\ UNCHANGED alive
    /\ UNCHANGED <<chainVars, registered, traceVars, ctxCreated, prevEnum>>

vkDebugMarkerSetObjectTagEXT ==
    \E device \in Devices, nres \in NextResults :
        PassThrough("vkDebugMarkerSetObjectTagEXT", device, nres)

vkSetDebugUtilsObjectNameEXT ==
    \E device \in Devices, nres \in NextResults :
        PassThrough("vkSetDebugUtilsObjectNameEXT", device, nres)

-----------------------------------------------------------------------------
(* Enumeration calls.  A caller buffer of capacity K has slots 0..K-1; a   *)
(* write is recorded with the index it lands on, inside the buffer or not. *)

\* The index 0 - 1 wraps to in unsigned 32-bit arithmetic is 4294967295;
\* TLC's integers end at 2147483647, which stands for it here: both
\* lie beyond every buffer.
UINT32_MAX == 2147483647

\* The one entry of device_extensions[] and of global_layer_properties[].
SyntheticExtension == [name |-> "VK_EXT_debug_marker", n |-> 0]
LayerProperty == [name |-> LAYER_NAME, n |-> 0]

\* The i-th extension the next segment reports.
NextExtension(i) == [name |-> "next", n |-> i]

Write(idx, val) == [idx |-> idx, val |-> val]

LayerNames == {"", LAYER_NAME, "OtherLayer"}    \* "" is a null pLayerName

EnumOps ==
    {"vkEnumerateInstanceLayerProperties", "vkEnumerateDeviceLayerProperties",
     "vkEnumerateDeviceExtensionProperties",
     "vkEnumerateInstanceExtensionProperties"}

\* What the history keeps of the call made just before the current one:
\* only a count query of vkEnumerateDeviceExtensionProperties is remembered.
EnumSummary(r) ==
    IF r.op = "vkEnumerateDeviceExtensionProperties" /\ r.nullBuf
    THEN [layer |-> r.layer, nullBuf |-> r.nullBuf, avail |-> r.avail,
          count |-> r.count, res |-> r.res]
    ELSE NoEnum

\* The return record of an enumeration call.
EnumRet(op, layer, nullBuf, cap, avail, res, count, writes, calls) ==
    [Ret(op, "", NullHandle, "", res, NULL, calls, <<>>, FALSE)
       EXCEPT !.layer = layer, !.nullBuf = nullBuf, !.cap = cap,
              !.avail = avail, !.count = count, !.writes = writes]

\* A write outside the caller's buffer is undefined behaviour: the call
\* returns as if nothing happened or the process crashes.
EnumReturn(r) ==
    /\ last' = [r EXCEPT !.ub = \E i \in 1..Len(r.writes) :
                                    r.writes[i].idx \notin 0..(r.cap - 1)]
    /\ IF last'.ub THEN alive' \in BOOLEAN ELSE UNCHANGED alive
    /\ prevEnum' = EnumSummary(last)
    /\ UNCHANGED <<chainVars, registered, traceVars, ctxCreated>>

\* get_layer_properties with a valid pPropertyCount pointer holding k.
\* The test at line 135 compares the pointer itself with 0, so it is false.
get_layer_properties(op, nullBuf, k) ==
    IF nullBuf
    THEN EnumRet(op, "", TRUE, k, 0, VK_SUCCESS, 1, <<>>, <<>>)
    ELSE EnumRet(op, "", FALSE, k, 0, VK_SUCCESS, 1,
                 <<Write(0, LayerProperty)>>, <<>>)

vkEnumerateInstanceLayerProperties ==
    \E nullBuf \in BOOLEAN, k \in 0..MaxCap :
        /\ alive
        /\ EnumReturn(get_layer_properties(
               "vkEnumerateInstanceLayerProperties", nullBuf, k))

vkEnumerateDeviceLayerProperties ==
    \E nullBuf \in BOOLEAN, k \in 0..MaxCap :
        /\ alive
        /\ EnumReturn(get_layer_properties(
               "vkEnumerateDeviceLayerProperties", nullBuf, k))

vkEnumerateInstanceExtensionProperties ==
    \E layer \in LayerNames, nullBuf \in BOOLEAN, k \in 0..MaxCap :
        /\ alive
        /\ EnumReturn(EnumRet("vkEnumerateInstanceExtensionProperties", layer,
                              nullBuf, k, 0, VK_SUCCESS, 0, <<>>, <<>>))

Min(a, b) == IF a < b THEN a ELSE b

\* The next segment's vkEnumerateDeviceExtensionProperties with a buffer of
\* capacity k when it has n extensions: it fills the first Min(k, n) slots
\* and reports that count.
NextFill(k, n) == [i \in 1..Min(k, n) |-> Write(i - 1, NextExtension(i))]

\* The slot the layer copies its own extension into after the next segment
\* has filled the buffer and set the count (unsigned 32-bit arithmetic).
SpliceIndex(count) == IF count = 0 THEN UINT32_MAX ELSE count - 1

\* n and nres are the number of extensions the next segment has and the
\* result of its count query.
vkEnumerateDeviceExtensionProperties(layer, nullBuf, k, n, nres) ==
    LET op == "vkEnumerateDeviceExtensionProperties"
        target == instances[op]
        call == <<NextCall(target, NullHandle, op)>>
    IN
    /\ alive
    /\ IF layer = LAYER_NAME
       THEN IF nullBuf
            THEN EnumReturn(EnumRet(op, layer, TRUE, k, n, VK_SUCCESS, 1,
                                    <<>>, <<>>))
            ELSE EnumReturn(EnumRet(op, layer, FALSE, k, n, VK_SUCCESS, k,
                      IF k > 0 THEN <<Write(0, SyntheticExtension)>>
                      ELSE <<>>, <<>>))
       ELSE IF nullBuf
       THEN IF target = NULL
            THEN /\ NullCall(op, "", NullHandle)
                 /\ UNCHANGED <<chainVars, registered, traceVars, ctxCreated,
                                prevEnum>>
            ELSE EnumReturn(EnumRet(op, layer, TRUE, k, n, nres,
                      IF nres = VK_SUCCESS THEN n + 1 ELSE k, <<>>, call))
       ELSE IF k > 0
       THEN IF target = NULL
            THEN /\ NullCall(op, "", NullHandle)
                 /\ UNCHANGED <<chainVars, registered, traceVars, ctxCreated,
                                prevEnum>>
            ELSE EnumReturn(EnumRet(op, layer, FALSE, k, n, VK_SUCCESS,
                      Min(k, n),
                      NextFill(k, n)
                        \o <<Write(SpliceIndex(Min(k, n)),
                                   SyntheticExtension)>>,
                      call))
       ELSE EnumReturn(EnumRet(op, layer, FALSE, k, n, VK_SUCCESS, k, <<>>,
                               <<>>))

EnumerateDeviceExtensionProperties ==
    \E layer \in LayerNames, nullBuf \in BOOLEAN, k \in 0..MaxCap,
       n \in 0..MaxExt, nres \in {VK_SUCCESS, VK_ERROR_OUT_OF_HOST_MEMORY} :
        /\ nullBuf \/ nres = VK_SUCCESS
        /\ vkEnumerateDeviceExtensionProperties(layer, nullBuf, k, n, nres)

-----------------------------------------------------------------------------
(* Tracing.                                                                *)
(*                                                                         *)
(* VkApiDataSource derives from perfetto::DataSource<GpuRenderStageData-   *)
(* Source>, the same base as GpuRenderStageDataSource, so                  *)
(* VkApiDataSource::Register/Trace and GpuRenderStageDataSource::Register/ *)
(* Trace are the same static member functions over the same static state:  *)
(* a session the consumer sets up under either registered name gets a      *)
(* GpuRenderStageDataSource instance in that one state, and each Trace     *)
(* call runs its lambda once per started instance, in slot order.  At most *)
(* one session per name is modelled.                                       *)

RenderStages == "gpu.renderstages"
VkApi == "vk_api"

Packet(kind, ts, id, queue, stage, duration, context) ==
    [kind |-> kind, ts |-> ts, event_id |-> id, hw_queue_id |-> queue,
     stage_id |-> stage, duration |-> duration, context |-> context]

\* The packet of the first lambda (timestamp cnt * 10 - 1).  The payload
\* fields copied from the call's arguments are left out.
MarkerPacket(c) == Packet("vk_debug_marker", c * 10 - 1, 0, 0, 0, 0, 0)

\* The hw_queue and stage entries the specifications packet declares.
NumQueues == 2
NumStages == 3

\* The packet with the specifications of two queues and three stages.
SchemaPacket == Packet("specifications", 0, 0, 0, 0, 0, 0)

\* A stage event whose stage id runs over four stages.
StagePacketFourStages(c) == Packet("stage", c * 10, c, c % 2, c % 4, 5, 42)

\* A stage event stamped with the bare counter.
StagePacketUnscaled(c) == Packet("stage", c, c, c % 2, c % 3, 5, 42)

\* The per-call render stage event of the second lambda.
StagePacket(c) == Packet("stage", c * 10, c, c % 2, c % 3, 5, 42)

\* A counter that is never incremented.
NextCntStuck(c) == c

\* cnt++
NextCnt(c) == c + 1

Started == {n \in DataSourceNames : dsState[n] = "started"}

\* The started instances in slot order.
RECURSIVE SlotOrder(_)
SlotOrder(S) ==
    IF S = {} THEN << >>
    ELSE LET n == CHOOSE x \in S : \A y \in S : dsSlot[x] <= dsSlot[y]
         IN <<n>> \o SlotOrder(S \ {n})

\* The lowest instance slot no session occupies.
FreeSlot ==
    CHOOSE i \in 1..Cardinality(DataSourceNames) :
        /\ \A n \in DataSourceNames : dsState[n] # "none" => dsSlot[n] # i
        /\ \A j \in 1..(i - 1) :
              \E n \in DataSourceNames : dsState[n] # "none" /\ dsSlot[n] = j

\* The history keeps the last two tracing events, each with the tracing
\* state it found.
TraceEvent(ev, n) ==
    [ev |-> ev, name |-> n, startedBefore |-> Started, firstBefore |-> first,
     lenBefore |-> [m \in DataSourceNames |-> Len(streamLog[m])]]

Push(h, e) == IF Len(h) < 2 THEN Append(h, e) ELSE <<h[2], e>>

\* The consumer sets up a session for a registered name: a new instance,
\* whose first is true, then OnSetup, which sets first = true.
OnSetup(n) ==
    /\ alive
    /\ n \in registered
    /\ dsState[n] = "none"
    /\ dsState' = [dsState EXCEPT ![n] = "setup"]
    /\ dsSlot' = [dsSlot EXCEPT ![n] = FreeSlot]
    /\ first' = [first EXCEPT ![n] = TRUE]
    /\ trHist' = Push(trHist, TraceEvent("setup", n))
    /\ sessionStart' = [sessionStart EXCEPT ![n] = Len(streamLog[n])]
    /\ last' = Ret("OnSetup", n, NullHandle, "", NoResult, NULL, <<>>, <<>>,
                   FALSE)
    /\ UNCHANGED <<chainVars, registered, cnt, streamLog, emitted, alive,
                   ctxCreated, prevEnum>>

OnStart(n) ==
    /\ alive
    /\ dsState[n] = "setup"
    /\ dsState' = [dsState EXCEPT ![n] = "started"]
    /\ trHist' = Push(trHist, TraceEvent("start", n))
    /\ last' = Ret("OnStart", n, NullHandle, "", NoResult, NULL, <<>>, <<>>,
                   FALSE)
    /\ UNCHANGED <<chainVars, registered, dsSlot, first, cnt, streamLog,
                   sessionStart, emitted, alive, ctxCreated, prevEnum>>

\* The session ends: OnStop, then the instance is destroyed.
OnStop(n) ==
    /\ alive
    /\ dsState[n] = "started"
    /\ dsState' = [dsState EXCEPT ![n] = "none"]
    /\ dsSlot' = [dsSlot EXCEPT ![n] = 0]
    /\ trHist' = Push(trHist, TraceEvent("stop", n))
    /\ last' = Ret("OnStop", n, NullHandle, "", NoResult, NULL, <<>>, <<>>,
                   FALSE)
    /\ UNCHANGED <<chainVars, registered, first, cnt, streamLog,
                   sessionStart, emitted, alive, ctxCreated, prevEnum>>

\* VkApiDataSource::Trace(lambda): one marker packet per started instance.
RECURSIVE RunMarkers(_, _, _)
RunMarkers(order, log, c) ==
    IF order = << >> THEN log
    ELSE RunMarkers(Tail(order),
                    [log EXCEPT ![Head(order)] = Append(@, MarkerPacket(c))],
                    c)

\* A flag that stays as it was.
FirstKept(f) == f

\* data_source->first = false, at the end of the specifications block.
FirstCleared(f) == FALSE

\* GpuRenderStageDataSource::Trace(lambda): for each started instance, the
\* specifications packet if its first is set, then the stage packet and
\* cnt++.
RECURSIVE RunStages(_, _, _, _, _)
RunStages(order, log, fst, c, em) ==
    IF order = << >>
    THEN [log |-> log, first |-> fst, cnt |-> c, emitted |-> em]
    ELSE LET n == Head(order)
             withSchema ==
                 IF fst[n] THEN Append(log[n], SchemaPacket) ELSE log[n]
         IN RunStages(Tail(order),
                      [log EXCEPT ![n] = Append(withSchema, StagePacket(c))],
                      [fst EXCEPT ![n] = IF fst[n] THEN FirstCleared(fst[n])
                                         ELSE fst[n]],
                      NextCnt(c),
                      Append(em, StagePacket(c)))

\* Called by an application that holds a device, hence after a context
\* creation.  The counter is capped at MaxCnt, far below the overflow of
\* cnt * 10.
vkDebugMarkerSetObjectNameEXT ==
    LET order == SlotOrder(Started)
        out == RunStages(order, RunMarkers(order, streamLog, cnt), first, cnt,
                         emitted)
    IN
    /\ alive
    /\ ctxCreated
    /\ cnt + Len(order) <= MaxCnt
    /\ streamLog' = out.log
    /\ first' = out.first
    /\ cnt' = out.cnt
    /\ emitted' = out.emitted
    /\ trHist' = Push(trHist, TraceEvent("call", ""))
    /\ last' = Ret("vkDebugMarkerSetObjectNameEXT", "", NullHandle, "",
                   VK_SUCCESS, NULL, <<>>, <<>>, FALSE)
    /\ UNCHANGED <<chainVars, registered, dsState, dsSlot, sessionStart,
                   alive, ctxCreated, prevEnum>>

TraceConsumer ==
    \E n \in DataSourceNames : OnSetup(n) \/ OnStart(n) \/ OnStop(n)

-----------------------------------------------------------------------------

Next ==
    \/ CreateInstance
    \/ CreateDevice
    \/ GetInstanceProcAddr
    \/ GetDeviceProcAddr
    \/ vkDebugMarkerSetObjectTagEXT
    \/ vkSetDebugUtilsObjectNameEXT

Spec == Init /\ [][Next]_vars

\* The enumeration calls, after any context creations.
NextEnum ==
    \/ CreateInstance
    \/ vkEnumerateInstanceLayerProperties
    \/ vkEnumerateDeviceLayerProperties
    \/ vkEnumerateInstanceExtensionProperties
    \/ EnumerateDeviceExtensionProperties

SpecEnum == Init /\ [][NextEnum]_vars

\* The trace-emitting handler and the trace consumer, from the state a
\* successful vkCreateInstance through a full next segment leaves behind.
InitTrace ==
    /\ instances = InstanceGetProcs(Link("full").pfnNextGetInstanceProcAddr,
                                    1)
    /\ device_map = << >>
    /\ registered = DataSourceNames
    /\ dsState = [n \in DataSourceNames |-> "none"]
    /\ dsSlot = [n \in DataSourceNames |-> 0]
    /\ first = [n \in DataSourceNames |-> TRUE]
    /\ cnt = 1
    /\ streamLog = [n \in DataSourceNames |-> << >>]
    /\ alive = TRUE
    /\ ctxCreated = TRUE
    /\ trHist = << >>
    /\ sessionStart = [n \in DataSourceNames |-> 0]
    /\ emitted = << >>
    /\ prevEnum = NoEnum
    /\ last = NoCall

NextTrace ==
    \/ TraceConsumer
    \/ vkDebugMarkerSetObjectNameEXT

SpecTrace == InitTrace /\ [][NextTrace]_vars

-----------------------------------------------------------------------------
(* Properties of the chain protocol *)

\* The allow-list of the context-scoped resolver as the specification gives it:
\* the resolver's own name, create-context, create-device and the
\* intercepted handlers and enumeration calls.
ContextAllowList ==
    {"vkGetInstanceProcAddr", "vkCreateInstance", "vkCreateDevice",
     "vkDebugMarkerSetObjectNameEXT", "vkSetDebugUtilsObjectNameEXT",
     "vkDebugMarkerSetObjectTagEXT", "vkEnumerateDeviceLayerProperties",
     "vkEnumerateDeviceExtensionProperties",
     "vkEnumerateInstanceLayerProperties"}

\* C1: after a successful context creation, vkGetInstanceProcAddr called
\* with any allow-listed name returns the layer's own handler for that name
\* and makes no call into the next segment.
C1_InterceptedNamesStayLocal ==
    (ctxCreated /\ last.op = "vkGetInstanceProcAddr"
        /\ last.fname \in ContextAllowList)
    => /\ last.ptr = Local(last.fname)
       /\ last.nextCalls = << >>
       /\ ~last.ub

\* C1 witness: the resolver's own name is resolved locally although the
\* stored next-segment resolver would answer it with its own pointer.
C1_Witness ==
    /\ ctxCreated
    /\ last.op = "vkGetInstanceProcAddr"
    /\ last.fname = "vkGetInstanceProcAddr"
    /\ last.handle # NullHandle
    /\ instances["vkGetInstanceProcAddr"] # NULL
    /\ CallInstanceResolver(instances["vkGetInstanceProcAddr"], last.handle,
                            last.fname) \notin {NULL, Local(last.fname)}
    /\ last.ptr = Local("vkGetInstanceProcAddr")

\* C2: after a successful context creation, vkGetInstanceProcAddr called
\* with a name outside the allow-list returns exactly what the stored
\* next-segment resolver returns for (instance, name), NULL included.
C2_PassThroughEquivalence ==
    (ctxCreated /\ last.op = "vkGetInstanceProcAddr"
        /\ last.fname \notin ContextAllowList)
    => LET stored == instances["vkGetInstanceProcAddr"] IN
       /\ stored # NULL
       /\ ~last.ub
       /\ last.ptr = CallInstanceResolver(stored, last.handle, last.fname)

\* C3: a vkCreateDevice whose next segment returns an identity that is
\* already a key of the device map returns VK_ERROR_INITIALIZATION_FAILED
\* and leaves the whole map, that entry included, as it was.
C3_DuplicateDeviceRejected ==
    [][ (last'.op = "vkCreateDevice" /\ last'.nextRes = VK_SUCCESS
            /\ last'.handle \in DOMAIN device_map)
        => /\ last'.res = VK_ERROR_INITIALIZATION_FAILED
           /\ device_map' = device_map ]_vars

\* C3 witness: a second creation of a registered identity, through a link
\* whose pointers differ from the stored ones, has been rejected while
\* another device is registered too.
C3_Witness ==
    /\ last.op = "vkCreateDevice"
    /\ last.nextRes = VK_SUCCESS
    /\ last.res = VK_ERROR_INITIALIZATION_FAILED
    /\ last.handle \in DOMAIN device_map
    /\ Cardinality(DOMAIN device_map) >= 2
    /\ device_map[last.handle].procs["vkGetDeviceProcAddr"]
         # NextGetDeviceProcAddr(last.seg, last.handle, "vkGetDeviceProcAddr")

\* C4: when the next segment's creation routine reports a non-success
\* result, vkCreateInstance and vkCreateDevice return exactly that result
\* and leave the instance table and the device map unchanged.
C4_NextFailurePropagated ==
    [][ (last'.op \in {"vkCreateInstance", "vkCreateDevice"}
            /\ last'.nextRes \notin {NoResult, VK_SUCCESS})
        => /\ last'.res = last'.nextRes
           /\ instances' = instances
           /\ device_map' = device_map ]_vars

\* C4 witness: a context creation failed in the next segment with a result
\* other than out-of-memory, through a link to another segment than the one
\* whose pointers the table holds, with a device registered.
C4_Witness ==
    /\ last.op = "vkCreateInstance"
    /\ last.nextRes = VK_ERROR_INITIALIZATION_FAILED
    /\ last.res = VK_ERROR_INITIALIZATION_FAILED
    /\ ctxCreated
    /\ instances["vkEnumerateDeviceExtensionProperties"].seg # last.seg
    /\ device_map # << >>

\* C5: a context creation in which the next segment's vkCreateInstance
\* fails registers no trace stream: the registered set is unchanged.
C5_FailedCreateRegistersNothing ==
    [][ (last'.op = "vkCreateInstance"
            /\ last'.nextRes \notin {NoResult, VK_SUCCESS})
        => registered' = registered ]_vars

\* TRUE when the resolver of segment seg answers NULL for a name of procs.
SomeUnresolved(seg, procs) == procs \ SegKnown(seg) # {}

\* C9: when the next segment's creation routine succeeded but one of the
\* auxiliary entry points resolved afterwards is NULL, the creation returns
\* VK_ERROR_INITIALIZATION_FAILED, and no stored table holds a NULL pointer.
C9_UnresolvedAuxiliaryFails ==
    /\ (last.op = "vkCreateInstance" /\ last.nextRes = VK_SUCCESS
          /\ SomeUnresolved(last.seg, InstanceProcs))
       => last.res = VK_ERROR_INITIALIZATION_FAILED
    /\ (last.op = "vkCreateDevice" /\ last.nextRes = VK_SUCCESS
          /\ SomeUnresolved(last.seg, DeviceProcs))
       => last.res = VK_ERROR_INITIALIZATION_FAILED
    /\ ctxCreated => \A n \in InstanceProcs : instances[n] # NULL
    /\ \A d \in DOMAIN device_map :
          \A n \in DeviceProcs : device_map[d].procs[n] # NULL

\* The next-segment pointer of a pass-through call that belongs to device
\* d: the field of d's own DeviceData, or, for a name DeviceData has no
\* field for, what d's stored device resolver returns.
DevicePointer(d, name) ==
    IF name \in DeviceProcs THEN device_map[d].procs[name]
    ELSE IF device_map[d].procs["vkGetDeviceProcAddr"] = NULL THEN NULL
    ELSE CallDeviceResolver(device_map[d].procs["vkGetDeviceProcAddr"],
                            d, name)

\* C10: a pass-through handler invoked for a registered device D calls the
\* next-segment pointer stored for D exactly once with the caller's
\* arguments and returns that call's result.
C10_PassThroughReachesOwnPointer ==
    (last.op \in PassThroughNames /\ last.handle \in DOMAIN device_map)
    => /\ ~last.ub
       /\ DevicePointer(last.handle, last.op) # NULL
       /\ last.nextCalls =
            <<NextCall(DevicePointer(last.handle, last.op), last.handle,
                       last.op)>>
       /\ last.res = last.nextRes

-----------------------------------------------------------------------------
(* Properties of the enumeration calls *)

Unwritten == [name |-> "unwritten", n |-> 0]

\* What slot i of the caller's buffer holds after the writes of the call.
SlotValue(writes, i) ==
    LET js == {j \in 1..Len(writes) : writes[j].idx = i} IN
    IF js = {} THEN Unwritten
    ELSE writes[CHOOSE j \in js : \A k \in js : k <= j].val

\* C6: for a layer name other than the layer's own, if the count query
\* reported C, the following call with a buffer of capacity C against a
\* next segment that still has C-1 extensions leaves all C-1 of them and
\* the layer's synthetic entry in the buffer and reports count C.
C6_TwoPhaseEnumerationConsistent ==
    (/\ last.op = "vkEnumerateDeviceExtensionProperties"
     /\ ~last.nullBuf
     /\ last.layer # LAYER_NAME
     /\ prevEnum.nullBuf
     /\ prevEnum.layer = last.layer
     /\ prevEnum.res = VK_SUCCESS
     /\ last.cap = prevEnum.count
     /\ last.avail = prevEnum.avail)
    => /\ \A i \in 1..last.avail :
            \E slot \in 0..(last.cap - 1) :
                SlotValue(last.writes, slot) = NextExtension(i)
       /\ \E slot \in 0..(last.cap - 1) :
            SlotValue(last.writes, slot) = SyntheticExtension
       /\ last.count = last.cap

\* C7: an enumeration call made with a non-null buffer of capacity K
\* writes only slots 0..K-1 (so none at all when K = 0).
C7_WritesStayInsideBuffer ==
    (last.op \in EnumOps /\ ~last.nullBuf)
    => \A j \in 1..Len(last.writes) :
          last.writes[j].idx \in 0..(last.cap - 1)

-----------------------------------------------------------------------------
(* Properties of the trace-emitting handler *)

IsRenderStageEvent(p) == p.kind \in {"specifications", "stage"}

\* The packets stream n has received since the first of the two events of
\* the history.
ReceivedSince(n) ==
    SubSeq(streamLog[n], trHist[1].lenBefore[n] + 1, Len(streamLog[n]))

\* The last two tracing events are two invocations of the handler, made
\* with the render-stage stream started and its first flag set before the
\* first of them.
TwoCallsFromFirst ==
    /\ Len(trHist) = 2
    /\ trHist[1].ev = "call"
    /\ trHist[2].ev = "call"
    /\ RenderStages \in trHist[1].startedBefore
    /\ trHist[1].firstBefore[RenderStages]

-----------------------------------------------------------------------------
(* Properties of the resolvers and of the creation protocol *)

\* C11: for a registered device D, vkGetDeviceProcAddr returns the local
\* handler for a name of the device allow-list and makes no call into the
\* next segment; for any other name it calls the resolver stored in D's own
\* DeviceData, exactly once with (D, name), and returns what that call
\* returns.
C11_DeviceResolverUsesOwnTable ==
    (last.op = "vkGetDeviceProcAddr" /\ last.handle \in DOMAIN device_map)
    => IF last.fname \in DeviceIntercepts
       THEN /\ last.ptr = Local(last.fname)
            /\ last.nextCalls = <<>>
       ELSE LET stored ==
                    device_map[last.handle].procs["vkGetDeviceProcAddr"] IN
            /\ ~last.ub
            /\ stored # NULL
            /\ last.nextCalls = <<NextCall(stored, last.handle, last.fname)>>
            /\ last.ptr = CallDeviceResolver(stored, last.handle, last.fname)

\* C12: vkGetInstanceProcAddr is total: in every state, for any name, the
\* call returns a local handler, the pointer the stored next-segment
\* resolver returns, or NULL, and it never calls through a stored resolver
\* that is NULL.
C12_InstanceResolverTotal ==
    last.op = "vkGetInstanceProcAddr"
    => /\ ~last.ub
       /\ last.ptr # Garbage
       /\ \A i \in 1..Len(last.nextCalls) : last.nextCalls[i].callee # NULL
       /\ alive

-----------------------------------------------------------------------------
(* Properties of the trace streams over sessions *)

IsSpecifications(p) == p.kind = "specifications"

IsStage(p) == p.kind = "stage"

\* The render-stage event records of a log: specifications and stage
\* records, without the vk_debug_marker records.
RenderStageEvents(log) == SelectSeq(log, IsRenderStageEvent)

\* The packets stream n has received since its last setup.
SessionLog(n) == SubSeq(streamLog[n], sessionStart[n] + 1, Len(streamLog[n]))

\* C13: over the whole life of the process, under any interleaving of
\* handler calls with setup, start and stop, a first flag that has been
\* cleared is never set again, a stream receives the specifications record
\* at most once, and every stage record of a stream comes after it.
C13_FirstNeverSetAgain ==
    [][ \A n \in DataSourceNames :
          /\ ~first[n] => ~first'[n]
          /\ Len(SelectSeq(streamLog'[n], IsSpecifications)) <= 1
          /\ LET rs == RenderStageEvents(streamLog'[n])
             IN rs # << >> => IsSpecifications(rs[1]) ]_vars

\* C13 as amended: a cleared first flag is set again only by the setup of
\* a new session of its stream; within one session, from a setup to the
\* next, the stream receives the specifications record at most once, and
\* every stage record of the session comes after it.
C13_FirstSetAgainOnlyBySetup ==
    [][ \A n \in DataSourceNames :
          /\ (~first[n] /\ first'[n])
             => (dsState[n] = "none" /\ dsState'[n] = "setup")
          /\ LET sess == SubSeq(streamLog'[n], sessionStart'[n] + 1,
                                Len(streamLog'[n]))
                 rs == RenderStageEvents(sess)
             IN /\ Len(SelectSeq(sess, IsSpecifications)) <= 1
                /\ rs # << >> => IsSpecifications(rs[1])
                /\ first'[n] => rs = << >> ]_vars

\* C13 witness: a stream is in its second session, has received the
\* specifications record in both, and a stage record behind the second.
C13_Witness ==
    \E n \in DataSourceNames :
        /\ sessionStart[n] > 0
        /\ ~first[n]
        /\ Len(SelectSeq(streamLog[n], IsSpecifications)) = 2
        /\ Len(SelectSeq(SessionLog(n), IsSpecifications)) = 1
        /\ Len(SelectSeq(SessionLog(n), IsStage)) >= 2

\* The positions of the records a step appends to the log of stream n.
Appended(n) == (Len(streamLog[n]) + 1)..Len(streamLog'[n])

\* C14: on each stream taken by itself, every record an invocation of the
\* handler emits carries a timestamp strictly greater than the timestamp of
\* every record earlier invocations emitted on that stream, whatever the
\* consumer started or stopped between the calls.
C14_TimestampsIncreaseInCallOrder ==
    [][ \A n \in DataSourceNames :
          \A j \in Appended(n) :
             \A i \in 1..Len(streamLog[n]) :
                streamLog[n][i].ts < streamLog'[n][j].ts ]_vars

\* C14 as amended: the same for the records that describe a call, the
\* vk_debug_marker record and the stage record; the specifications record
\* always carries timestamp 0.
C14_CallRecordTimestampsIncrease ==
    [][ \A n \in DataSourceNames :
          \A j \in Appended(n) :
             /\ IsSpecifications(streamLog'[n][j]) => streamLog'[n][j].ts = 0
             /\ ~IsSpecifications(streamLog'[n][j])
                => \A i \in 1..Len(streamLog[n]) :
                      streamLog[n][i].ts < streamLog'[n][j].ts ]_vars

IsMarker(p) == p.kind = "vk_debug_marker"

\* C14 witness: one stream has been stopped and set up again and holds the
\* records of two invocations or more, while the other stream, started and
\* stopped on its own, holds the records of fewer invocations.
C14_Witness ==
    \E n \in DataSourceNames : \E m \in DataSourceNames \ {n} :
        /\ sessionStart[n] > 0
        /\ Len(SelectSeq(SessionLog(n), IsMarker)) >= 1
        /\ Len(SelectSeq(streamLog[n], IsMarker)) >= 2
        /\ Len(SelectSeq(streamLog[m], IsMarker)) >= 1
        /\ Len(SelectSeq(streamLog[m], IsMarker))
              < Len(SelectSeq(streamLog[n], IsMarker))

-----------------------------------------------------------------------------
(* Properties of the creation routines *)

CreationOps == {"vkCreateInstance", "vkCreateDevice"}

\* What the resolver of the head of the link list the caller handed in
\* answers for the creation routine of the call.
CreationRoutine(r) ==
    CallInstanceResolver(Head(r.linkBefore).pfnNextGetInstanceProcAddr,
                         NullHandle, r.op)

\* C15: a creation call that resolves the next segment's creation routine
\* takes its resolvers from the head of its own link list as the caller
\* handed it in, advances the list by exactly one link, and then calls the
\* creation routine once: the next segment sees the list without this
\* layer's link, the list is one link shorter after the call, and the
\* pointers a successful call stores were resolved through the resolvers of
\* the consumed link.
C15_LinkAdvancedOnceBeforeNextCreate ==
    (last.op \in CreationOps /\ CreationRoutine(last) # NULL)
    => LET own == Head(last.linkBefore) IN
       /\ last.nextCalls =
             <<NextCall(CreationRoutine(last), NullHandle, last.op)>>
       /\ last.linkSeen = Tail(last.linkBefore)
       /\ last.linkAfter = Tail(last.linkBefore)
       /\ Len(last.linkAfter) = Len(last.linkBefore) - 1
       /\ (last.op = "vkCreateInstance" /\ last.res = VK_SUCCESS)
          => instances = InstanceGetProcs(own.pfnNextGetInstanceProcAddr,
                                          last.handle)
       /\ (last.op = "vkCreateDevice" /\ last.res = VK_SUCCESS)
          => device_map[last.handle].procs =
                [n \in DeviceProcs |->
                    CallDeviceResolver(own.pfnNextGetDeviceProcAddr,
                                       last.handle, n)]

\* C15 witness: a device creation through a link list of two different
\* segments has called the next creation routine and stored its pointers.
C15_Witness ==
    /\ last.op = "vkCreateDevice"
    /\ last.res = VK_SUCCESS
    /\ Len(last.linkBefore) = 2
    /\ last.linkBefore[1] # last.linkBefore[2]
    /\ last.linkSeen = <<last.linkBefore[2]>>
    /\ last.nextCalls # <<>>
    /\ last.handle \in DOMAIN device_map

\* C16: when the next segment's resolver answers NULL for the creation
\* routine, the creation call returns VK_ERROR_INITIALIZATION_FAILED, calls
\* nothing in the next segment, leaves the caller's link list as it was,
\* and changes neither the instance table nor the device map.
C16_MissingCreationRoutineFails ==
    [][ (last'.op \in CreationOps /\ CreationRoutine(last') = NULL)
        => /\ last'.res = VK_ERROR_INITIALIZATION_FAILED
           /\ last'.nextCalls = <<>>
           /\ last'.linkAfter = last'.linkBefore
           /\ instances' = instances
           /\ device_map' = device_map ]_vars

\* C16 witness: a device creation failed for want of the creation routine
\* while the device map already held a device.
C16_Witness ==
    /\ last.op = "vkCreateDevice"
    /\ CreationRoutine(last) = NULL
    /\ last.res = VK_ERROR_INITIALIZATION_FAILED
    /\ last.linkAfter = last.linkBefore
    /\ last.linkBefore # <<>>
    /\ device_map # << >>

\* C17: every key the device map gains is the device identity the next
\* segment's vkCreateDevice returned with VK_SUCCESS to a vkCreateDevice
\* call of this layer that itself returned VK_SUCCESS; an entry of the map
\* is never removed and never changed, whatever is called.
C17_DeviceMapOnlyGrowsBySuccess ==
    [][ /\ \A d \in DOMAIN device_map :
              d \in DOMAIN device_map' /\ device_map'[d] = device_map[d]
        /\ \A d \in DOMAIN device_map' \ DOMAIN device_map :
              /\ last'.op = "vkCreateDevice"
              /\ last'.handle = d
              /\ last'.nextRes = VK_SUCCESS
              /\ last'.res = VK_SUCCESS
              /\ last'.nextCalls # <<>> ]_vars

\* C17 witness: the map holds two devices stored by different creations,
\* and a later creation for one of them has been turned down.
C17_Witness ==
    /\ Cardinality(DOMAIN device_map) = 2
    /\ device_map[1] # device_map[2]
    /\ last.op = "vkCreateDevice"
    /\ last.nextRes = VK_SUCCESS
    /\ last.res = VK_ERROR_INITIALIZATION_FAILED
    /\ last.seg # device_map[last.handle].procs["vkDebugMarkerSetObjectTagEXT"].seg

-----------------------------------------------------------------------------
(* Every entry point of the layer together, with small inputs: one device, *)
(* two names per resolver, one buffer shape for the device extension       *)
(* query, and a consumer that sets up and starts the render-stage stream.  *)

NextFrame ==
    \/ CreateInstance
    \/ \E ci \in CreateInfos(FALSE), nres \in NextResults :
          vkCreateDevice("gpu0", ci, nres, 1)
    \/ \E funcName \in {"vkCreateDevice", "vkQueueSubmit"} :
          vkGetInstanceProcAddr(1, funcName)
    \/ \E funcName \in {"vkGetDeviceProcAddr", "vkQueueSubmit"} :
          vkGetDeviceProcAddr(1, funcName)
    \/ vkDebugMarkerSetObjectTagEXT
    \/ vkSetDebugUtilsObjectNameEXT
    \/ vkEnumerateInstanceLayerProperties
    \/ vkEnumerateDeviceLayerProperties
    \/ vkEnumerateInstanceExtensionProperties
    \/ \E layer \in {"", LAYER_NAME} :
          vkEnumerateDeviceExtensionProperties(layer, FALSE, 1, 1, VK_SUCCESS)
    \/ OnSetup(RenderStages)
    \/ OnStart(RenderStages)
    \/ vkDebugMarkerSetObjectNameEXT

SpecFrame == Init /\ [][NextFrame]_vars

\* The operations that are not vkCreateInstance.
OtherOps ==
    {"vkCreateDevice", "vkGetInstanceProcAddr", "vkGetDeviceProcAddr",
     "vkDebugMarkerSetObjectNameEXT", "OnSetup", "OnStart"}
    \cup PassThroughNames \cup EnumOps

\* C18: the instance table changes only in a vkCreateInstance whose next
\* vkCreateInstance returned VK_SUCCESS, and then the whole table becomes
\* the pointers resolved for the new instance through that call's next
\* resolver, whatever it held before; vkCreateDevice, both resolvers, the
\* enumeration calls and the intercepted handlers leave it as it was.
C18_InstanceTableWrittenOnlyByCreateInstance ==
    [][ /\ instances' # instances
           => /\ last'.op = "vkCreateInstance"
              /\ last'.nextRes = VK_SUCCESS
              /\ last'.res = VK_SUCCESS
        /\ (last'.op = "vkCreateInstance" /\ last'.res = VK_SUCCESS)
           => \A n \in InstanceProcs :
                 instances'[n] =
                    NextGetInstanceProcAddr(last'.seg, last'.handle, n)
        /\ last'.op \in OtherOps => instances' = instances ]_vars

\* C18 witness: a second successful vkCreateInstance, through another next
\* segment, has replaced the table of the first, after the other entry
\* points ran against the first.
C18_Witness ==
    /\ last.op = "vkCreateInstance"
    /\ last.res = VK_SUCCESS
    /\ last.seg = "plain"
    /\ instances["vkEnumerateDeviceExtensionProperties"].seg = "plain"
    /\ instances["vkDebugMarkerSetObjectTagEXT"] = NULL
    /\ device_map # << >>
    /\ device_map[1].procs["vkDebugMarkerSetObjectTagEXT"].seg = "full"
    /\ emitted # << >>

-----------------------------------------------------------------------------
(* Properties of get_layer_link_info *)

\* The positions of the nodes of a chain that match the scope: the tag is
\* the scope's loader tag and the function field is VK_LAYER_LINK_INFO.
Matching(chain, is_instance) ==
    { i \in 1..Len(chain) :
        /\ chain[i].sType = (IF is_instance
                             THEN VK_STRUCTURE_TYPE_LOADER_INSTANCE_CREATE_INFO
                             ELSE VK_STRUCTURE_TYPE_LOADER_DEVICE_CREATE_INFO)
        /\ chain[i].function = VK_LAYER_LINK_INFO }

\* C19: for every chain of up to MaxChain nodes with any mix of tags and
\* function values, get_layer_link_info returns the first matching node,
\* returns null (0) when no node matches, returns the one matching node
\* when there is exactly one, and leaves every node as it was.
C19_ExtractorReturnsFirstMatch ==
    last.op = "get_layer_link_info"
    => LET M == Matching(last.pNext, last.is_instance) IN
       /\ M = {} => last.found = 0
       /\ M # {} => (last.found \in M /\ \A i \in M : last.found <= i)
       /\ Cardinality(M) = 1 => M = {last.found}
       /\ last.pNextAfter = last.pNext

\* C19 witness: a chain of three nodes whose first node has the scope's tag
\* but is not a link-info node and whose other two nodes both match; the
\* second node was returned.
C19_Witness ==
    /\ last.op = "get_layer_link_info"
    /\ Len(last.pNext) = 3
    /\ Matching(last.pNext, last.is_instance) = {2, 3}
    /\ last.pNext[1].sType = last.pNext[2].sType
    /\ last.found = 2

\* The stage records of all streams.
StageRecords ==
    UNION { { streamLog[n][i] : i \in { j \in 1..Len(streamLog[n]) :
                                           IsStage(streamLog[n][j]) } } :
            n \in DataSourceNames }

\* C20: every stage record the handler has emitted names a queue and a
\* stage the specifications record declares (queue id 0 or 1, stage id 0,
\* 1 or 2), and in the order of emission the event ids are 1, 2, 3, ...:
\* each is one greater than the event id of the stage record emitted just
\* before it, so that no two stage records share an event id.
C20_StageRecordsDeclaredAndNumbered ==
    /\ \A i \in 1..Len(emitted) :
          /\ emitted[i].event_id = i
          /\ emitted[i].hw_queue_id \in 0..(NumQueues - 1)
          /\ emitted[i].stage_id \in 0..(NumStages - 1)
    /\ StageRecords = { emitted[i] : i \in 1..Len(emitted) }
    /\ \A n \in DataSourceNames :
          \A i, j \in 1..Len(streamLog[n]) :
             (i < j /\ IsStage(streamLog[n][i]) /\ IsStage(streamLog[n][j]))
             => streamLog[n][i].event_id < streamLog[n][j].event_id
    /\ \A r \in StageRecords :
          Cardinality({ n \in DataSourceNames :
                          \E i \in 1..Len(streamLog[n]) :
                             streamLog[n][i] = r }) = 1

\* C20 witness: four stage records have been emitted, over a stop and a new
\* setup of one stream, and the last one names queue 0 and stage 1.
C20_Witness ==
    /\ Len(emitted) = 4
    /\ emitted[4].event_id = 4
    /\ emitted[4].hw_queue_id = 0
    /\ emitted[4].stage_id = 1
    /\ \E n \in DataSourceNames :
          /\ sessionStart[n] > 0
          /\ SelectSeq(SessionLog(n), IsStage) # << >>

====
